---- MODULE Spec2Model ----
(***************************************************************************)
(* A model of burrowdb (src/db.go): a store that keeps each struct value   *)
(* as a JSON file at <dir>/<type name>/<%v of the ID field>.               *)
(*                                                                         *)
(* Strings are sequences of one-character strings, so that fmt.Sprintf is  *)
(* concatenation, a path is split at its slashes the way the file system   *)
(* does it, and a first letter can be tested for being upper case.         *)
(* The module is built with per-iteration loop variables (Go 1.22 or       *)
(* later): src/cmd/main.go stores a value whose ID field is the middle one *)
(* and reads it back by that field's value.                                *)
(***************************************************************************)
EXTENDS Integers, Sequences, FiniteSets, TLC

VARIABLES dbs, fs, last, written, nputs, calls

vars == <<dbs, fs, last, written, nputs, calls>>

(***************************************************************************)
(* Bounds of the model.                                                    *)
(***************************************************************************)
MaxPuts == 3
MaxFields == 3
MaxDBs == 2
MaxTwoPuts == 2

(***************************************************************************)
(* Strings.                                                                *)
(***************************************************************************)
Slash == <<"/">>
UpperCase == {"A", "B", "I", "D", "N", "S", "F", "U", "E", "W", "X"}
Digit == <<"0", "1", "2", "3", "4", "5", "6", "7", "8", "9">>

S_ID == <<"I", "D">>
S_Str == <<"S", "t", "r">>
S_Num == <<"N", "u", "m">>
S_Float == <<"F", "l", "o", "a", "t">>
S_Name == <<"N", "a", "m", "e">>
S_secret == <<"s", "e", "c", "r", "e", "t">>
S_A == <<"A">>
S_B == <<"B">>
S_X == <<"X">>
S_newType == <<"n", "e", "w", "T", "y", "p", "e">>
S_User == <<"U", "s", "e", "r">>
S_Secret == <<"S", "e", "c", "r", "e", "t">>
S_Bad == <<"B", "a", "d">>
S_Empty == <<"E", "m", "p", "t", "y">>
S_int == <<"i", "n", "t">>
S_store == <<"s", "t", "o", "r", "e">>
S_burrow == <<"b", "u", "r", "r", "o", "w">>
S_string == <<"s", "t", "r", "i", "n", "g">>
S_other == <<"o", "t", "h", "e", "r">>
S_x == <<"x">>
S_y == <<"y">>
S_1 == <<"1">>
S_nil == <<"<", "n", "i", "l", ">">>
S_NaN == <<"N", "a", "N">>

\* unicode.IsUpper of the first rune, which is what makes a field exported.
IsExported(name) == Len(name) > 0 /\ name[1] \in UpperCase

RECURSIVE FormatUint(_)
\* strconv's decimal rendering of a non-negative integer.
FormatUint(n) ==
    IF n < 10 THEN <<Digit[n + 1]>>
    ELSE FormatUint(n \div 10) \o <<Digit[(n % 10) + 1]>>

\* %v of an integer: decimal, with a minus sign when negative.
FormatInt(n) == IF n < 0 THEN <<"-">> \o FormatUint(-n) ELSE FormatUint(n)

\* %v of a float64 (the shortest %g form), for a value given in hundredths:
\* 314 is 3.14, 250 is 2.5, 12300 is 123.
FormatFloat(h) ==
    LET a == IF h < 0 THEN -h ELSE h
        sign == IF h < 0 THEN <<"-">> ELSE <<>>
        whole == FormatUint(a \div 100)
        frac == a % 100
    IN  IF frac = 0 THEN sign \o whole
        ELSE IF frac % 10 = 0 THEN sign \o whole \o <<".">> \o <<Digit[(frac \div 10) + 1]>>
        ELSE sign \o whole \o <<".">> \o <<Digit[(frac \div 10) + 1], Digit[(frac % 10) + 1]>>

DigitValue(c) == CHOOSE d \in 0..9 : Digit[d + 1] = c
IsDigit(c) == \E d \in 1..10 : Digit[d] = c

RECURSIVE ParseUint(_)
ParseUint(s) ==
    IF Len(s) = 0 THEN 0
    ELSE 10 * ParseUint(SubSeq(s, 1, Len(s) - 1)) + DigitValue(s[Len(s)])

\* Whether a JSON number literal is an integer literal (what decoding into an
\* int64 field needs).
IsIntLiteral(s) ==
    LET body == IF Len(s) > 0 /\ s[1] = "-" THEN Tail(s) ELSE s
    IN  Len(body) > 0 /\ \A i \in 1..Len(body) : IsDigit(body[i])

ParseInt(s) == IF s[1] = "-" THEN -ParseUint(Tail(s)) ELSE ParseUint(s)

\* A JSON number literal read back as a float64, in hundredths.
ParseFloat(s) ==
    LET neg == Len(s) > 0 /\ s[1] = "-"
        body == IF neg THEN Tail(s) ELSE s
        dots == {i \in 1..Len(body) : body[i] = "."}
        dot == IF dots = {} THEN Len(body) + 1 ELSE CHOOSE i \in dots : TRUE
        whole == ParseUint(SubSeq(body, 1, dot - 1))
        fr == SubSeq(body, dot + 1, Len(body))
        frac == IF Len(fr) = 0 THEN 0
                ELSE IF Len(fr) = 1 THEN 10 * DigitValue(fr[1])
                ELSE 10 * DigitValue(fr[1]) + DigitValue(fr[2])
        a == 100 * whole + frac
    IN  IF neg THEN -a ELSE a

(***************************************************************************)
(* Errors.  An error is a message and, for a wrapped one, its cause.       *)
(***************************************************************************)
Err(msg, cause) == [msg |-> msg, cause |-> cause]
NoErr == Err("nil", "")
ErrInvalidValueType == Err("invalid value type", "")
ErrNoIDField == Err("value has no ID field", "")
ErrMultipleIDFields == Err("value has multiple ID fields", "")
ErrNoSuchEntity == Err("no such entity exists", "")
ErrNonPointerDst == Err("dst is not a pointer", "")
\* A nil pointer dereference: the call does not return, the process dies.
Panic == Err("panic", "invalid memory address or nil pointer dereference")

structTagName == "burrowdb"
idFieldName == S_ID

(***************************************************************************)
(* The file system under the working directory: the set of directories    *)
(* and the contents of the files, both addressed by the sequence of the    *)
(* path's components.                                                      *)
(***************************************************************************)
NoFiles == [p \in {} |-> <<>>]
EmptyFS == [dirs |-> {<<>>}, files |-> NoFiles]

RECURSIVE Components(_, _)
\* The components of a relative path: the text between slashes, empty
\* components (a doubled or trailing slash) dropped. cur is the component
\* being read.
Components(path, cur) ==
    IF Len(path) = 0 THEN (IF Len(cur) = 0 THEN <<>> ELSE <<cur>>)
    ELSE IF Head(path) = "/"
         THEN (IF Len(cur) = 0 THEN <<>> ELSE <<cur>>) \o Components(Tail(path), <<>>)
         ELSE Components(Tail(path), Append(cur, Head(path)))

PathOf(path) == Components(path, <<>>)
EndsWithSlash(path) == Len(path) > 0 /\ path[Len(path)] = "/"
Prefix(p, k) == SubSeq(p, 1, k)
\* A proper prefix of the path is a regular file: ENOTDIR.
ThroughFile(f, p) == \E k \in 1..(Len(p) - 1) : Prefix(p, k) \in DOMAIN f.files

\* os.Mkdir's refusal of a directory that exists (EEXIST) in place of
\* os.MkdirAll's acceptance of it.
MkdirAll_exclusive(f, path) ==
    LET p == PathOf(path)
        bad == {k \in 1..Len(p) : Prefix(p, k) \in DOMAIN f.files}
        upto == IF bad = {} THEN Len(p)
                ELSE (CHOOSE k \in bad : \A j \in bad : k <= j) - 1
    IN  IF p \in f.dirs THEN [fs |-> f, err |-> "EEXIST"]
        ELSE [fs |-> [f EXCEPT !.dirs = @ \cup {Prefix(p, k) : k \in 0..upto}],
              err |-> IF bad = {} THEN "" ELSE "ENOTDIR"]

\* os.MkdirAll: creates the directory and its missing parents; fails when a
\* component on the way exists as a file, keeping the parents made so far.
MkdirAll(f, path) ==
    LET p == PathOf(path)
        bad == {k \in 1..Len(p) : Prefix(p, k) \in DOMAIN f.files}
        upto == IF bad = {} THEN Len(p)
                ELSE (CHOOSE k \in bad : \A j \in bad : k <= j) - 1
    IN  [fs |-> [f EXCEPT !.dirs = @ \cup {Prefix(p, k) : k \in 0..upto}],
         err |-> IF bad = {} THEN "" ELSE "ENOTDIR"]

\* os.WriteFile: open with O_WRONLY|O_CREATE|O_TRUNC, then write the bytes;
\* an existing file is replaced as a whole.
WriteFile(f, path, data) ==
    LET p == PathOf(path)
    IN  IF ThroughFile(f, p) THEN [fs |-> f, err |-> "ENOTDIR"]
        ELSE IF p \in f.dirs THEN [fs |-> f, err |-> "EISDIR"]
        ELSE IF Prefix(p, Len(p) - 1) \notin f.dirs THEN [fs |-> f, err |-> "ENOENT"]
        ELSE IF EndsWithSlash(path)
             THEN [fs |-> f, err |-> IF p \in DOMAIN f.files THEN "ENOTDIR" ELSE "EISDIR"]
        ELSE [fs |-> [f EXCEPT !.files =
                        [q \in DOMAIN f.files \cup {p} |-> IF q = p THEN data ELSE f.files[q]]],
              err |-> ""]

\* os.ReadFile.
ReadFile(f, path) ==
    LET p == PathOf(path)
    IN  IF ThroughFile(f, p) THEN [data |-> <<>>, err |-> "ENOTDIR"]
        ELSE IF p \in DOMAIN f.files
             THEN (IF EndsWithSlash(path) THEN [data |-> <<>>, err |-> "ENOTDIR"]
                   ELSE [data |-> f.files[p], err |-> ""])
        ELSE IF p \in f.dirs THEN [data |-> <<>>, err |-> "EISDIR"]
        ELSE [data |-> <<>>, err |-> "ENOENT"]

\* errors.Is(err, os.ErrNotExist)
IsNotExist(e) == e = "ENOENT"

(***************************************************************************)
(* Go types and values, as reflect sees them.                              *)
(*                                                                         *)
(* A struct type is its package path, its name and its fields; a field is  *)
(* its name, the value of its burrowdb struct tag ("" without one) and the *)
(* kind of its type. The struct types of the model have no embedded        *)
(* fields, so reflect.VisibleFields is the declared fields in order.       *)
(***************************************************************************)
Field(name, tag, kind) == [name |-> name, tag |-> tag, kind |-> kind]
StructType(pkg, name, fields) ==
    [pkg |-> pkg, name |-> name, kind |-> "struct", fields |-> fields]
BasicType(name, kind) == [pkg |-> "", name |-> name, kind |-> kind, fields |-> <<>>]
\* What reflect.TypeOf returns for a nil interface: no type at all.
NilType == [pkg |-> "", name |-> <<>>, kind |-> "nil", fields |-> <<>>]
\* A pointer, slice or map type is unnamed: Name() is "".
UnnamedType(kind) == BasicType(<<>>, kind)

NilValue == [kind |-> "nil"]
IntValue(n) == [kind |-> "int64", n |-> n]
\* The integer kinds of reflect, and an integer of one of them.
IntKinds == {"int", "int8", "int16", "int32", "int64",
             "uint", "uint8", "uint16", "uint32", "uint64"}
IntOf(kind, n) == [kind |-> kind, n |-> n]
StringValue(s) == [kind |-> "string", s |-> s]
\* A float64, in hundredths; nan for NaN.
FloatValue(h) == [kind |-> "float64", h |-> h, nan |-> FALSE]
NaNValue == [kind |-> "float64", h |-> 0, nan |-> TRUE]
StructValue(t, vals) == [kind |-> "struct", type |-> t, vals |-> vals]
\* A pointer to a variable of type elem holding target; isnil for a nil
\* pointer of that type.
PtrValue(elem, target) == [kind |-> "ptr", elem |-> elem, isnil |-> FALSE, target |-> target]
NilPtrValue(elem) == [kind |-> "ptr", elem |-> elem, isnil |-> TRUE, target |-> NilValue]
SliceValue == [kind |-> "slice"]
MapValue == [kind |-> "map"]

\* reflect.TypeOf
TypeOf(v) ==
    CASE v.kind = "nil" -> NilType
      [] v.kind = "struct" -> v.type
      [] v.kind = "int64" -> BasicType(<<"i", "n", "t", "6", "4">>, "int64")
      [] v.kind = "string" -> BasicType(S_string, "string")
      [] v.kind = "float64" -> BasicType(<<"f", "l", "o", "a", "t", "6", "4">>, "float64")
      [] OTHER -> UnnamedType(v.kind)

ZeroOfKind(kind) ==
    CASE kind = "int64" -> IntValue(0)
      [] kind = "string" -> StringValue(<<>>)
      [] kind = "float64" -> FloatValue(0)

\* The zero value of a type: T{} for a struct type.
Zero(t) ==
    IF t.kind = "struct"
    THEN StructValue(t, [i \in 1..Len(t.fields) |-> ZeroOfKind(t.fields[i].kind)])
    ELSE ZeroOfKind(t.kind)

\* reflect.VisibleFields
VisibleFields(t) == t.fields

\* reflect.Value.FieldByName
FieldByName(v, name) ==
    v.vals[CHOOSE i \in 1..Len(v.type.fields) : v.type.fields[i].name = name]

\* fmt's %v of a value (of an interface holding it, or of the reflect.Value
\* of a field): decimal for an integer, the text itself for a string, the
\* shortest form for a float, <nil> for nil.
FormatV(v) ==
    CASE v.kind \in IntKinds -> FormatInt(v.n)
      [] v.kind = "string" -> v.s
      [] v.kind = "float64" -> (IF v.nan THEN S_NaN ELSE FormatFloat(v.h))
      [] v.kind = "nil" -> S_nil

(***************************************************************************)
(* encoding/json.  The encoding of a struct is the sequence of its         *)
(* members, one per exported field in field order: the key, whether the    *)
(* value is a JSON number or a JSON string, and its text.                  *)
(***************************************************************************)
Member(key, j, text) == [key |-> key, j |-> j, text |-> text]

EncodeScalar(name, v) ==
    CASE v.kind = "int64" -> Member(name, "number", FormatInt(v.n))
      [] v.kind = "float64" -> Member(name, "number", FormatFloat(v.h))
      [] v.kind = "string" -> Member(name, "string", v.s)

RECURSIVE EncodeFields(_, _, _)
EncodeFields(fields, vals, i) ==
    IF i > Len(fields) THEN <<>>
    ELSE IF IsExported(fields[i].name)
         THEN <<EncodeScalar(fields[i].name, vals[i])>> \o EncodeFields(fields, vals, i + 1)
         ELSE EncodeFields(fields, vals, i + 1)

\* json.Marshal of a struct value: unexported fields are left out; a NaN in
\* an exported field is an UnsupportedValueError.
Marshal(v) ==
    LET fields == v.type.fields
        bad == \E i \in 1..Len(fields) :
                   /\ IsExported(fields[i].name)
                   /\ v.vals[i].kind = "float64"
                   /\ v.vals[i].nan
    IN  IF bad THEN [data |-> <<>>, err |-> "json: unsupported value: NaN"]
        ELSE [data |-> EncodeFields(fields, v.vals, 1), err |-> ""]

Lower ==
    ("A" :> "a") @@ ("B" :> "b") @@ ("D" :> "d") @@ ("E" :> "e") @@ ("F" :> "f")
    @@ ("I" :> "i") @@ ("N" :> "n") @@ ("S" :> "s") @@ ("U" :> "u") @@ ("W" :> "w")
    @@ ("X" :> "x")
Fold(s) == [i \in 1..Len(s) |-> IF s[i] \in DOMAIN Lower THEN Lower[s[i]] ELSE s[i]]

\* The field a key decodes into: an exported field of that name, else an
\* exported field whose name differs only in case; 0 for none.
FieldForKey(fields, key) ==
    LET exact == {i \in 1..Len(fields) : IsExported(fields[i].name) /\ fields[i].name = key}
        folded == {i \in 1..Len(fields) :
                      IsExported(fields[i].name) /\ Fold(fields[i].name) = Fold(key)}
    IN  IF exact # {} THEN CHOOSE i \in exact : TRUE
        ELSE IF folded # {} THEN CHOOSE i \in folded : \A j \in folded : i <= j
        ELSE 0

\* Whether a member's value can be stored in a field of that kind.
Decodable(m, kind) ==
    CASE kind = "string" -> m.j = "string"
      [] kind = "int64" -> m.j = "number" /\ IsIntLiteral(m.text)
      [] kind = "float64" -> m.j = "number"

DecodeScalar(m, kind) ==
    CASE kind = "string" -> StringValue(m.text)
      [] kind = "int64" -> IntValue(ParseInt(m.text))
      [] kind = "float64" -> FloatValue(ParseFloat(m.text))

RECURSIVE DecodeMembers(_, _, _, _)
\* Decoding an object into a struct, member by member: a member with no
\* field is skipped, a member of the wrong JSON type leaves its field alone
\* and the first such error is what Unmarshal returns at the end.
DecodeMembers(data, i, sv, err) ==
    IF i > Len(data) THEN [val |-> sv, err |-> err]
    ELSE LET m == data[i]
             f == FieldForKey(sv.type.fields, m.key)
         IN  IF f = 0 THEN DecodeMembers(data, i + 1, sv, err)
             ELSE IF Decodable(m, sv.type.fields[f].kind)
                  THEN DecodeMembers(data, i + 1,
                           [sv EXCEPT !.vals[f] = DecodeScalar(m, sv.type.fields[f].kind)], err)
                  ELSE DecodeMembers(data, i + 1, sv,
                           IF err = "" THEN "json: cannot unmarshal into Go struct field" ELSE err)

\* json.Unmarshal(data, dst): dst after the call, and the error.
Unmarshal(data, dst) ==
    IF dst.kind # "ptr" \/ dst.isnil
    THEN [dst |-> dst, err |-> "json: InvalidUnmarshalError"]
    ELSE IF dst.elem.kind # "struct"
    THEN [dst |-> dst, err |-> "json: cannot unmarshal object into Go value"]
    ELSE LET r == DecodeMembers(data, 1, dst.target, "")
         IN  [dst |-> [dst EXCEPT !.target = r.val], err |-> r.err]

(***************************************************************************)
(* The bytes of an encoding, for the writers that race on a file: the JSON *)
(* text json.Marshal produces for a struct of strings and numbers, and its *)
(* reading by json.Unmarshal.  The texts of the model have no escapes and  *)
(* no nested values.                                                       *)
(***************************************************************************)
Quote(s) == <<"\"">> \o s \o <<"\"">>
MemberText(m) ==
    Quote(m.key) \o <<":">> \o (IF m.j = "string" THEN Quote(m.text) ELSE m.text)

RECURSIVE JoinMembers(_, _)
JoinMembers(data, i) ==
    IF i > Len(data) THEN <<>>
    ELSE (IF i > 1 THEN <<",">> ELSE <<>>) \o MemberText(data[i]) \o JoinMembers(data, i + 1)

\* {"Key":value,...}
EncodeText(data) == <<"{">> \o JoinMembers(data, 1) \o <<"}">>

RECURSIVE Split(_, _, _)
\* The pieces of a text between the occurrences of a separator.
Split(t, sep, cur) ==
    IF Len(t) = 0 THEN <<cur>>
    ELSE IF Head(t) = sep THEN <<cur>> \o Split(Tail(t), sep, <<>>)
    ELSE Split(Tail(t), sep, Append(cur, Head(t)))

IsQuoted(t) ==
    /\ Len(t) >= 2
    /\ t[1] = "\"" /\ t[Len(t)] = "\""
    /\ \A i \in 2..(Len(t) - 1) : t[i] # "\""
Unquote(t) == SubSeq(t, 2, Len(t) - 1)
\* A JSON number of the model: an optional minus sign, digits, and
\* optionally a point and digits.
IsNumberText(t) ==
    LET body == IF Len(t) > 0 /\ t[1] = "-" THEN Tail(t) ELSE t
        parts == Split(body, ".", <<>>)
    IN  /\ Len(parts) \in {1, 2}
        /\ \A k \in 1..Len(parts) : IsIntLiteral(parts[k]) /\ parts[k][1] # "-"

IsMemberText(t) ==
    LET kv == Split(t, ":", <<>>)
    IN  /\ Len(kv) = 2
        /\ IsQuoted(kv[1])
        /\ IsQuoted(kv[2]) \/ IsNumberText(kv[2])
ParseMember(t) ==
    LET kv == Split(t, ":", <<>>)
    IN  IF IsQuoted(kv[2]) THEN Member(Unquote(kv[1]), "string", Unquote(kv[2]))
        ELSE Member(Unquote(kv[1]), "number", kv[2])

\* The members of a JSON text, or a SyntaxError: for an empty text, for
\* text after the closing brace of the object, for a malformed member.
ParseText(t) ==
    LET closing == {i \in 1..Len(t) : t[i] = "}"}
        body == SubSeq(t, 2, Len(t) - 1)
        pieces == IF body = <<>> THEN <<>> ELSE Split(body, ",", <<>>)
    IN  IF Len(t) = 0
        THEN [data |-> <<>>, err |-> "unexpected end of JSON input"]
        ELSE IF t[1] # "{" \/ closing = {}
        THEN [data |-> <<>>, err |-> "json: syntax error"]
        ELSE IF closing # {Len(t)}
        THEN [data |-> <<>>, err |-> "invalid character after top-level value"]
        ELSE IF \E k \in 1..Len(pieces) : ~IsMemberText(pieces[k])
        THEN [data |-> <<>>, err |-> "json: syntax error"]
        ELSE [data |-> [k \in 1..Len(pieces) |-> ParseMember(pieces[k])], err |-> ""]

(***************************************************************************)
(* BurrowDB.                                                               *)
(***************************************************************************)
\* An option of NewDB: WithDir(dir), or a caller's own option function that
\* returns an error.
WithDir(dir) == [kind |-> "WithDir", dir |-> dir]
FailingOption == [kind |-> "fail", dir |-> <<>>]

RECURSIVE ApplyOptions(_, _, _)
\* The loop over opts in NewDB: the directory set so far, or the first
\* option's error.
ApplyOptions(opts, i, dir) ==
    IF i > Len(opts) THEN [dir |-> dir, err |-> ""]
    ELSE IF opts[i].kind = "fail" THEN [dir |-> dir, err |-> "option failed"]
    ELSE ApplyOptions(opts, i + 1, opts[i].dir)

\* NewDB(opts...): the instance (when err is NoErr) and the file system
\* after it.
NewDBResult(f, opts) ==
    LET applied == ApplyOptions(opts, 1, <<>>)
        dir == IF applied.dir = <<>> THEN S_burrow ELSE applied.dir
        mk == MkdirAll(f, dir)
    IN  IF applied.err # ""
        THEN [db |-> [dir |-> <<>>], err |-> Err("error applying option", applied.err), fs |-> f]
        ELSE IF mk.err # ""
        THEN [db |-> [dir |-> <<>>], err |-> Err("unable to create directory", mk.err), fs |-> mk.fs]
        ELSE [db |-> [dir |-> dir], err |-> NoErr, fs |-> mk.fs]

RECURSIVE ScanFields_firstWins(_, _, _)
\* The loop with the checks for a second match left out: the first match
\* stands and later ones are ignored.
ScanFields_firstWins(fields, i, idField) ==
    IF i > Len(fields) THEN [idField |-> idField, err |-> NoErr]
    ELSE IF idField = 0 /\ (fields[i].name = idFieldName \/ fields[i].tag = idFieldName)
         THEN ScanFields_firstWins(fields, i + 1, i)
    ELSE ScanFields_firstWins(fields, i + 1, idField)

RECURSIVE ScanFields_noContinue(_, _, _)
\* The loop without the continue after a match by name: the same field is
\* then also tried against the tag.
ScanFields_noContinue(fields, i, idField) ==
    IF i > Len(fields) THEN [idField |-> idField, err |-> NoErr]
    ELSE IF fields[i].name = idFieldName /\ idField # 0
         THEN [idField |-> idField, err |-> ErrMultipleIDFields]
    ELSE LET afterName == IF fields[i].name = idFieldName THEN i ELSE idField
         IN  IF fields[i].tag = idFieldName
             THEN (IF afterName # 0 THEN [idField |-> afterName, err |-> ErrMultipleIDFields]
                   ELSE ScanFields_noContinue(fields, i + 1, i))
             ELSE ScanFields_noContinue(fields, i + 1, afterName)

RECURSIVE ScanFields(_, _, _)
\* The loop of Put over the visible fields. idField is 0 for a nil pointer
\* and otherwise the index of the field the pointer refers to (the loop
\* variable of that iteration).
ScanFields(fields, i, idField) ==
    IF i > Len(fields) THEN [idField |-> idField, err |-> NoErr]
    ELSE IF fields[i].name = idFieldName
         THEN (IF idField # 0 THEN [idField |-> idField, err |-> ErrMultipleIDFields]
               ELSE ScanFields(fields, i + 1, i))
    ELSE IF fields[i].tag = idFieldName
         THEN (IF idField # 0 THEN [idField |-> idField, err |-> ErrMultipleIDFields]
               ELSE ScanFields(fields, i + 1, i))
    ELSE ScanFields(fields, i + 1, idField)

\* idField pointing at a loop variable shared by all iterations: after the
\* loop it holds the last field scanned.
IDFieldName_lastScanned(fields, idField) == fields[Len(fields)].name

\* idField.Name
IDFieldName(fields, idField) == fields[idField].name

\* The directory kept in one place for every instance, the default one,
\* instead of in the instance's own field.
TypeDir_global(dir, t) == S_burrow \o Slash \o t.name

\* The directory of a type: fmt.Sprintf("%s/%s", db.dir, _type.Name())
TypeDir(dir, t) == dir \o Slash \o t.name

\* fmt.Sprintf("%s/%v", typeDir, id)
FileName(typeDir, id) == typeDir \o Slash \o FormatV(id)

\* Put with the type's directory made before the value is encoded.
PutResult_mkdirFirst(db, f, v) ==
    LET _type == TypeOf(v)
    IN  IF _type = NilType THEN [err |-> Panic, fs |-> f]
        ELSE IF _type.kind # "struct" THEN [err |-> ErrInvalidValueType, fs |-> f]
        ELSE
        LET fields == VisibleFields(_type)
            scan == ScanFields(fields, 1, 0)
        IN  IF scan.err # NoErr THEN [err |-> scan.err, fs |-> f]
            ELSE IF scan.idField = 0 THEN [err |-> ErrNoIDField, fs |-> f]
            ELSE
            LET typeDir == TypeDir(db.dir, _type)
                mk == MkdirAll(f, typeDir)
                m == Marshal(v)
            IN  IF mk.err # ""
                THEN [err |-> Err("unable to create type dir", mk.err), fs |-> mk.fs]
                ELSE IF m.err # ""
                THEN [err |-> Err("unable to marshal value", m.err), fs |-> mk.fs]
                ELSE
                LET filename == FileName(typeDir,
                                    FieldByName(v, IDFieldName(fields, scan.idField)))
                    w == WriteFile(mk.fs, filename, m.data)
                IN  IF w.err # ""
                    THEN [err |-> Err("unable to write file", w.err), fs |-> w.fs]
                    ELSE [err |-> NoErr, fs |-> w.fs]

\* db.Put(v): the error it returns and the file system after it.
PutResult(db, f, v) ==
    LET _type == TypeOf(v)
    IN  IF _type = NilType THEN [err |-> Panic, fs |-> f]
        ELSE IF _type.kind # "struct" THEN [err |-> ErrInvalidValueType, fs |-> f]
        ELSE
        LET fields == VisibleFields(_type)
            scan == ScanFields(fields, 1, 0)
        IN  IF scan.err # NoErr THEN [err |-> scan.err, fs |-> f]
            ELSE IF scan.idField = 0 THEN [err |-> ErrNoIDField, fs |-> f]
            ELSE
            LET m == Marshal(v)
            IN  IF m.err # "" THEN [err |-> Err("unable to marshal value", m.err), fs |-> f]
                ELSE
                LET typeDir == TypeDir(db.dir, _type)
                    mk == MkdirAll(f, typeDir)
                IN  IF mk.err # ""
                    THEN [err |-> Err("unable to create type dir", mk.err), fs |-> mk.fs]
                    ELSE
                    LET filename == FileName(typeDir,
                                        FieldByName(v, IDFieldName(fields, scan.idField)))
                        w == WriteFile(mk.fs, filename, m.data)
                    IN  IF w.err # ""
                        THEN [err |-> Err("unable to write file", w.err), fs |-> w.fs]
                        ELSE [err |-> NoErr, fs |-> w.fs]

\* The %s verb in place of %v for the id: only a string is rendered as
\* itself, any other value as %!s(...).
GetFileName_verbS(dir, name, id) ==
    dir \o Slash \o name \o Slash \o
        (IF id.kind = "string" THEN id.s ELSE <<"%", "!", "s", "(">> \o FormatV(id) \o <<")">>)

\* fmt.Sprintf("%s/%s/%v", db.dir, _type.Elem().Name(), id)
GetFileName(dir, name, id) == dir \o Slash \o name \o Slash \o FormatV(id)

\* db.GetByID(dst, id): the error it returns and dst after it.
GetByIDResult(db, f, dst, id) ==
    LET _type == TypeOf(dst)
    IN  IF _type = NilType THEN [err |-> Panic, dst |-> dst]
        ELSE IF _type.kind # "ptr" THEN [err |-> ErrNonPointerDst, dst |-> dst]
        ELSE
        LET filename == GetFileName(db.dir, dst.elem.name, id)
            rd == ReadFile(f, filename)
        IN  IF IsNotExist(rd.err) THEN [err |-> ErrNoSuchEntity, dst |-> dst]
            ELSE IF rd.err # "" THEN [err |-> Err("unable to get entity", rd.err), dst |-> dst]
            ELSE
            LET u == Unmarshal(rd.data, dst)
            IN  IF u.err # ""
                THEN [err |-> Err("unable to unmarshal data", u.err), dst |-> u.dst]
                ELSE [err |-> NoErr, dst |-> u.dst]

\* GetByID making sure of the type's directory the way Put does.
GetByIDStore_mkdir(db, f, dst, id) ==
    IF dst.kind = "ptr" THEN MkdirAll(f, TypeDir(db.dir, dst.elem)).fs ELSE f

\* What a call of GetByID does to the file system: os.ReadFile only reads.
GetByIDStore(db, f, dst, id) == f

(***************************************************************************)
(* Which field is the identifier, said without the loop: a field matches   *)
(* by its name or by its tag.                                              *)
(***************************************************************************)
Matches(field) == field.name = S_ID \/ field.tag = S_ID
MatchSet(t) == {i \in 1..Len(t.fields) : Matches(t.fields[i])}
\* The identifier value of a struct value with exactly one matching field.
IdOf(v) == v.vals[CHOOSE i \in MatchSet(v.type) : TRUE]

(***************************************************************************)
(* The callers' types and values.                                          *)
(***************************************************************************)
NoTag == <<>>
\* src/cmd/main.go: the ID is the middle field, by its tag.
T_newType ==
    StructType("main", S_newType,
        <<Field(S_Str, NoTag, "string"), Field(S_Num, S_ID, "int64"),
          Field(S_Float, NoTag, "float64")>>)
\* Two types called User, of two packages; one keeps its ID first and as an
\* integer, the other last and as a string.
T_UserA ==
    StructType("a", S_User, <<Field(S_ID, NoTag, "int64"), Field(S_Name, NoTag, "string")>>)
T_UserB ==
    StructType("b", S_User, <<Field(S_Name, NoTag, "string"), Field(S_ID, NoTag, "string")>>)
\* A type with an unexported field.
T_Secret ==
    StructType("a", S_Secret, <<Field(S_ID, NoTag, "int64"), Field(S_secret, NoTag, "string")>>)
T_Bad == StructType("a", S_Bad, <<Field(S_A, S_ID, "int64"), Field(S_B, S_ID, "int64")>>)
T_Empty == StructType("a", S_Empty, <<Field(S_X, NoTag, "int64")>>)
\* An unnamed struct type, struct{ ID string }: Name() is "".
T_Anon == StructType("", <<>>, <<Field(S_ID, NoTag, "string")>>)
T_int == BasicType(S_int, "int64")

V_main == StructValue(T_newType, <<StringValue(S_string), IntValue(123), FloatValue(314)>>)

StructValues ==
    { V_main,
      StructValue(T_newType, <<StringValue(S_other), IntValue(123), FloatValue(250)>>),
      StructValue(T_newType, <<StringValue(S_string), IntValue(123), NaNValue>>),
      StructValue(T_UserA, <<IntValue(1), StringValue(S_x)>>),
      StructValue(T_UserA, <<IntValue(1), StringValue(S_y)>>),
      StructValue(T_UserB, <<StringValue(S_x), StringValue(S_1)>>),
      StructValue(T_Secret, <<IntValue(1), StringValue(S_x)>>),
      StructValue(T_Bad, <<IntValue(1), IntValue(2)>>),
      StructValue(T_Empty, <<IntValue(1)>>),
      StructValue(T_Anon, <<StringValue(S_User)>>),
      StructValue(T_Anon, <<StringValue(<<>>)>>) }

\* Values that are not structs: nil, an integer, a slice, a map, a pointer to
\* a struct.
NonStructValues ==
    { NilValue, IntValue(5), SliceValue, MapValue,
      PtrValue(T_UserA, Zero(T_UserA)) }

PutValues == StructValues \cup NonStructValues

\* Destinations: &T{} for the struct types, and what is not a pointer to a
\* struct: a struct value, nil, a *int, a nil *User.
PointerDsts == {PtrValue(t, Zero(t)) : t \in {T_newType, T_UserA, T_UserB, T_Secret}}
OtherDsts == {Zero(T_UserA), NilValue, PtrValue(T_int, IntValue(0)), NilPtrValue(T_UserA)}
Dsts == PointerDsts \cup OtherDsts

\* Identifiers as the callers pass them: as an int64, as an integer of
\* another width, as the decimal text, and the empty string.
IDs ==
    { IntValue(123), IntValue(1), StringValue(S_1), StringValue(<<>>),
      IntOf("int32", 123), IntOf("uint8", 1), StringValue(<<"1", "2", "3">>) }

\* No option (the default directory), main.go's WithDir("store"), and an
\* option that fails.
OptionLists == {<<>>, <<WithDir(S_store)>>, <<FailingOption>>}

(***************************************************************************)
(* The state: the instance made by NewDB, the file system, the last call   *)
(* with what it returned, the (type, identifier) pairs of the Puts that    *)
(* returned nil, and the number of Put calls so far.                       *)
(***************************************************************************)
Call(op, d, v, id, err, dst) ==
    [op |-> op, db |-> d, v |-> v, id |-> id, err |-> err, dst |-> dst]

\* calls is what each goroutine that calls Put concurrently is at: idle,
\* about to open its file, about to write it, or returned.
Goroutines == {1, 2}
Idle == [pc |-> "idle", v |-> NilValue, filename |-> <<>>, data |-> <<>>, err |-> NoErr]
NoCalls == [g \in Goroutines |-> Idle]

\* The state after construction: NewDB has been called once, with one of the
\* option lists; dbs holds the instance it returned, if it returned one.
Init ==
    /\ \E opts \in OptionLists :
           \E r \in {NewDBResult(EmptyFS, opts)} :
               /\ dbs = IF r.err = NoErr THEN <<r.db>> ELSE <<>>
               /\ fs = r.fs
               /\ last = Call("NewDB", IF r.err = NoErr THEN 1 ELSE 0,
                              NilValue, NilValue, r.err, NilValue)
    /\ written = {}
    /\ nputs = 0
    /\ calls = NoCalls

\* The process is running: no call has panicked.
Running == last.err # Panic

PutCall(d, v, max) ==
    /\ Running
    /\ nputs < max
    /\ \E r \in {PutResult(dbs[d], fs, v)} :
           /\ fs' = r.fs
           /\ last' = Call("Put", d, v, NilValue, r.err, NilValue)
           /\ written' = IF r.err = NoErr
                         THEN written \cup {[type |-> v.type, id |-> IdOf(v)]}
                         ELSE written
    /\ nputs' = nputs + 1
    /\ UNCHANGED <<dbs, calls>>

GetByIDCall(d, dst, id) ==
    /\ Running
    /\ \E r \in {GetByIDResult(dbs[d], fs, dst, id)} :
           /\ last' = Call("GetByID", d, dst, id, r.err, r.dst)
           /\ fs' = GetByIDStore(dbs[d], fs, dst, id)
    /\ UNCHANGED <<dbs, written, nputs, calls>>

Put == \E d \in 1..Len(dbs), v \in PutValues : PutCall(d, v, MaxPuts)
GetByID == \E d \in 1..Len(dbs), dst \in Dsts, id \in IDs : GetByIDCall(d, dst, id)

\* GetByID again with the same arguments: the same instance, the same
\* pointer (now pointing at what the first call left there), the same id.
GetAgain == last.op = "GetByID" /\ GetByIDCall(last.db, last.dst, last.id)

Next == Put \/ GetByID \/ GetAgain

Spec == Init /\ [][Next]_vars

(***************************************************************************)
(* The resolver over every field order.  A second specification: the       *)
(* value to store is drawn from the struct types made of up to MaxFields   *)
(* fields called ID, Num, Str and Float, each with or without the tag, in  *)
(* every order; it is stored in main.go's instance and read back.          *)
(***************************************************************************)
S_Widget == <<"W", "i", "d", "g", "e", "t">>
S_a == <<"a">>

PoolKind(name) ==
    CASE name = S_ID -> "int64"
      [] name = S_Num -> "int64"
      [] name = S_Str -> "string"
      [] name = S_Float -> "float64"

\* The value each field holds, different for every field.
PoolValue(name) ==
    CASE name = S_ID -> IntValue(7)
      [] name = S_Num -> IntValue(123)
      [] name = S_Str -> StringValue(S_a)
      [] name = S_Float -> FloatValue(314)

FieldPool == {Field(n, t, PoolKind(n)) : n \in {S_ID, S_Num, S_Str, S_Float}, t \in {NoTag, S_ID}}

FieldLists ==
    UNION { {fl \in [1..n -> FieldPool] :
                \A i, j \in 1..n : fl[i].name = fl[j].name => i = j} : n \in 1..MaxFields }

FieldValues ==
    { StructValue(StructType("main", S_Widget, fl),
                  [i \in 1..Len(fl) |-> PoolValue(fl[i].name)]) : fl \in FieldLists }

FieldIDs == {IntValue(7), IntValue(123), StringValue(S_a), FloatValue(314)}

InitFields ==
    /\ \E r \in {NewDBResult(EmptyFS, <<WithDir(S_store)>>)} :
           /\ dbs = <<r.db>>
           /\ fs = r.fs
    /\ \E v \in FieldValues : last = Call("input", 0, v, NilValue, NoErr, NilValue)
    /\ written = {}
    /\ nputs = 0
    /\ calls = NoCalls

\* Put of the value drawn.
PutInput == last.op = "input" /\ PutCall(1, last.v, MaxPuts)

\* GetByID right after the Put, into an empty value of the type stored.
GetBack ==
    /\ last.op = "Put"
    /\ \E id \in FieldIDs : GetByIDCall(1, PtrValue(last.v.type, Zero(last.v.type)), id)

NextFields == PutInput \/ GetBack

SpecFields == InitFields /\ [][NextFields]_vars

(***************************************************************************)
(* Several instances.  A third specification: NewDB is called again while  *)
(* the program runs, with the default directory, with main.go's "store" or *)
(* with "store/User", a directory inside the other instance's; values are  *)
(* put and read through any of the instances.                              *)
(***************************************************************************)
S_storeUser == S_store \o Slash \o S_User

TwoOptionLists == {<<>>, <<WithDir(S_store)>>, <<WithDir(S_storeUser)>>}
\* Two values of one type under one identifier; the identifier, and the
\* type's own name as an identifier.
TwoValues ==
    { StructValue(T_UserA, <<IntValue(1), StringValue(S_x)>>),
      StructValue(T_UserA, <<IntValue(1), StringValue(S_y)>>) }
TwoDsts == {PtrValue(T_UserA, Zero(T_UserA))}
TwoIDs == {IntValue(1), StringValue(S_User)}

\* NewDB(opts...) called again: the instance it returns joins the others.
NewInstance ==
    /\ Running
    /\ Len(dbs) < MaxDBs
    /\ \E opts \in TwoOptionLists :
           \E r \in {NewDBResult(fs, opts)} :
               /\ dbs' = IF r.err = NoErr THEN Append(dbs, r.db) ELSE dbs
               /\ fs' = r.fs
               /\ last' = Call("NewDB", IF r.err = NoErr THEN Len(dbs) + 1 ELSE 0,
                               NilValue, NilValue, r.err, NilValue)
    /\ UNCHANGED <<written, nputs, calls>>

PutTwo == \E d \in 1..Len(dbs), v \in TwoValues : PutCall(d, v, MaxTwoPuts)
GetTwo == \E d \in 1..Len(dbs), dst \in TwoDsts, id \in TwoIDs : GetByIDCall(d, dst, id)

NextTwo == NewInstance \/ PutTwo \/ GetTwo

SpecTwo == Init /\ [][NextTwo]_vars

(***************************************************************************)
(* Racing writers.  A fourth specification: two goroutines call Put on     *)
(* main.go's instance at the same time.  Each call runs up to os.WriteFile *)
(* in one step, and os.WriteFile in two: the open with                     *)
(* O_WRONLY|O_CREATE|O_TRUNC, which empties the file, and the write of the *)
(* bytes at the start of the file.  Files hold JSON text here.  GetByID is *)
(* called once both Puts have returned.                                    *)
(***************************************************************************)
V_other == StructValue(T_newType, <<StringValue(S_other), IntValue(123), FloatValue(250)>>)
\* Two values of one type and identifier whose encodings differ in length,
\* and two whose encodings have the same length.
RaceValues ==
    { V_main, V_other,
      StructValue(T_UserA, <<IntValue(1), StringValue(S_x)>>),
      StructValue(T_UserA, <<IntValue(1), StringValue(S_y)>>) }
RaceDsts == {PtrValue(t, Zero(t)) : t \in {T_newType, T_UserA}}
RaceIDs == {IntValue(123), IntValue(1)}

Prepared(err, f, filename, data) ==
    [err |-> err, fs |-> f, filename |-> filename, data |-> data]

\* Put up to the call of os.WriteFile: the checks, the encoding, the
\* directory of the type, the name of the file.
PutPrepare(db, f, v) ==
    LET _type == TypeOf(v)
    IN  IF _type = NilType THEN Prepared(Panic, f, <<>>, <<>>)
        ELSE IF _type.kind # "struct" THEN Prepared(ErrInvalidValueType, f, <<>>, <<>>)
        ELSE
        LET fields == VisibleFields(_type)
            scan == ScanFields(fields, 1, 0)
        IN  IF scan.err # NoErr THEN Prepared(scan.err, f, <<>>, <<>>)
            ELSE IF scan.idField = 0 THEN Prepared(ErrNoIDField, f, <<>>, <<>>)
            ELSE
            LET m == Marshal(v)
                typeDir == TypeDir(db.dir, _type)
                mk == MkdirAll(f, typeDir)
            IN  IF m.err # ""
                THEN Prepared(Err("unable to marshal value", m.err), f, <<>>, <<>>)
                ELSE IF mk.err # ""
                THEN Prepared(Err("unable to create type dir", mk.err), mk.fs, <<>>, <<>>)
                ELSE Prepared(NoErr, mk.fs,
                         FileName(typeDir, FieldByName(v, IDFieldName(fields, scan.idField))),
                         EncodeText(m.data))

\* The write appending to the file (O_APPEND) instead of writing at the
\* start of it.
WriteAt_append(content, data) == content \o data

\* f.Write(data) on a file just opened: the bytes go to the start of the
\* file, over what is there; what lies beyond them stays.
WriteAt(content, data) == data \o SubSeq(content, Len(data) + 1, Len(content))

\* GetByID over files of JSON text.
GetByIDText(db, f, dst, id) ==
    IF dst.kind # "ptr" THEN GetByIDResult(db, f, dst, id)
    ELSE LET filename == GetFileName(db.dir, dst.elem.name, id)
             rd == ReadFile(f, filename)
             parsed == ParseText(rd.data)
         IN  IF rd.err # "" THEN GetByIDResult(db, f, dst, id)
             ELSE IF parsed.err # ""
             THEN [err |-> Err("unable to unmarshal data", parsed.err), dst |-> dst]
             ELSE GetByIDResult(db, [f EXCEPT !.files[PathOf(filename)] = parsed.data],
                                dst, id)

InitRace ==
    /\ \E r \in {NewDBResult(EmptyFS, <<WithDir(S_store)>>)} :
           /\ dbs = <<r.db>>
           /\ fs = r.fs
           /\ last = Call("NewDB", 1, NilValue, NilValue, r.err, NilValue)
    /\ written = {}
    /\ nputs = 0
    /\ calls = NoCalls

\* A goroutine calls Put and gets as far as os.WriteFile, or returns an
\* error.
PutStart ==
    \E g \in Goroutines, v \in RaceValues :
        /\ calls[g].pc = "idle"
        /\ \E r \in {PutPrepare(dbs[1], fs, v)} :
               /\ fs' = r.fs
               /\ calls' = [calls EXCEPT ![g] =
                               [pc |-> IF r.err = NoErr THEN "open" ELSE "done",
                                v |-> v, filename |-> r.filename, data |-> r.data,
                                err |-> r.err]]
        /\ nputs' = nputs + 1
        /\ UNCHANGED <<dbs, last, written>>

\* os.WriteFile opens the file: it is created, or emptied.
PutOpen ==
    \E g \in Goroutines :
        /\ calls[g].pc = "open"
        /\ \E w \in {WriteFile(fs, calls[g].filename, <<>>)} :
               /\ fs' = w.fs
               /\ calls' = IF w.err = ""
                           THEN [calls EXCEPT ![g].pc = "write"]
                           ELSE [calls EXCEPT ![g].pc = "done",
                                              ![g].err = Err("unable to write file", w.err)]
        /\ UNCHANGED <<dbs, last, written, nputs>>

\* os.WriteFile writes the bytes and closes the file; Put returns nil.
PutWrite ==
    \E g \in Goroutines :
        /\ calls[g].pc = "write"
        /\ fs' = [fs EXCEPT !.files[PathOf(calls[g].filename)] = WriteAt(@, calls[g].data)]
        /\ calls' = [calls EXCEPT ![g].pc = "done"]
        /\ written' = written \cup {[type |-> calls[g].v.type, id |-> IdOf(calls[g].v)]}
        /\ UNCHANGED <<dbs, last, nputs>>

AllReturned == \A g \in Goroutines : calls[g].pc = "done"

GetAfter ==
    /\ AllReturned
    /\ \E dst \in RaceDsts, id \in RaceIDs :
           \E r \in {GetByIDText(dbs[1], fs, dst, id)} :
               last' = Call("GetByID", 1, dst, id, r.err, r.dst)
    /\ UNCHANGED <<dbs, fs, written, nputs, calls>>

NextRace == PutStart \/ PutOpen \/ PutWrite \/ GetAfter

SpecRace == InitRace /\ [][NextRace]_vars

(***************************************************************************)
(* Vocabulary of the properties.                                           *)
(***************************************************************************)
\* A struct value whose type has exactly one identifier field.
HasOneID(v) == v.kind = "struct" /\ Cardinality(MatchSet(v.type)) = 1
\* &T{}: a reference to an empty record of the type.
EmptyDst(t) == PtrValue(t, Zero(t))
\* A reference to a record: a non-nil pointer to a struct.
IsRecordRef(dst) == dst.kind = "ptr" /\ ~dst.isnil /\ dst.elem.kind = "struct"
\* The last call was a Put that returned nil.
PutDone(c) == c.op = "Put" /\ c.err = NoErr
\* The bytes stored for (type, id) under a directory: <<data>>, or <<>> when
\* no file can be read there.
StoredEntity(f, dir, t, id) ==
    LET rd == ReadFile(f, FileName(TypeDir(dir, t), id))
    IN  IF rd.err = "" THEN <<rd.data>> ELSE <<>>
\* No Put of a record of the type with that identifier has returned nil.
NeverWritten(t, id) ==
    \A w \in written : ~(w.type = t /\ FormatV(w.id) = FormatV(id))
StructTypes == {T_newType, T_UserA, T_UserB, T_Secret, T_Bad, T_Empty, T_Anon}

(***************************************************************************)
(* C1.  Round trip: when Put(r) returns nil for a record r with exactly    *)
(* one identifier field, an immediately following GetByID(&T{}, k) on the  *)
(* same instance, k being r's identifier, returns nil and leaves the       *)
(* destination equal to r.                                                 *)
(***************************************************************************)
C1_RoundTrip ==
    [][ ( /\ PutDone(last) /\ HasOneID(last.v)
          /\ last'.op = "GetByID" /\ last'.db = last.db
          /\ last'.v = EmptyDst(last.v.type)
          /\ last'.id = IdOf(last.v) )
        => (last'.err = NoErr /\ last'.dst.target = last.v) ]_vars

(***************************************************************************)
(* C2.  Overwrite: when Put(r1) and then Put(r2) return nil, r1 and r2 of  *)
(* the same type and with the same identifier k, GetByID(&T{}, k) yields   *)
(* r2.                                                                     *)
(***************************************************************************)
C2_Overwrite ==
    [][ ( /\ PutDone(last) /\ PutDone(last') /\ last'.db = last.db
          /\ last'.v.type = last.v.type
          /\ IdOf(last'.v) = IdOf(last.v) )
        => LET r == GetByIDResult(dbs'[last'.db], fs', EmptyDst(last'.v.type), IdOf(last'.v))
           IN  r.err = NoErr /\ r.dst.target = last'.v ]_vars

(***************************************************************************)
(* C3.  Not found: GetByID with a reference to a record of type T and an   *)
(* identifier k, no Put of a T with identifier k having ever returned nil, *)
(* returns ErrNoSuchEntity.                                                *)
(***************************************************************************)
C3_NotFound ==
    ( /\ last.op = "GetByID" /\ IsRecordRef(last.v)
      /\ NeverWritten(last.v.elem, last.id) )
    => last.err = ErrNoSuchEntity

(***************************************************************************)
(* C4.  Namespace isolation: a Put of a record of type T1 with identifier  *)
(* k leaves the entity stored for (T2, k) as it was, for every other       *)
(* record type T2.                                                         *)
(***************************************************************************)
C4_NamespaceIsolation ==
    [][ (last'.op = "Put" /\ HasOneID(last'.v))
        => \A t2 \in StructTypes \ {last'.v.type} :
               StoredEntity(fs', dbs[last'.db].dir, t2, IdOf(last'.v))
                   = StoredEntity(fs, dbs[last'.db].dir, t2, IdOf(last'.v)) ]_vars

(***************************************************************************)
(* C5.  Identifier resolution is a three-way partition whatever the field  *)
(* order: Put of a value whose type has no matching field returns          *)
(* ErrNoIDField, with two or more matching fields ErrMultipleIDFields, and *)
(* with exactly one the scan ends without error on that field.             *)
(***************************************************************************)
C5_ResolverPartition ==
    last.op = "Put" =>
        LET t == last.v.type
            n == Cardinality(MatchSet(t))
            scan == ScanFields(VisibleFields(t), 1, 0)
        IN  /\ n = 0 => last.err = ErrNoIDField
            /\ n >= 2 => last.err = ErrMultipleIDFields
            /\ n = 1 => /\ scan.err = NoErr
                        /\ MatchSet(t) = {scan.idField}
                        /\ last.err \notin {ErrNoIDField, ErrMultipleIDFields}

\* Put has refused a type whose first and last fields both match, the first
\* by its name and the last by its tag, with a field between them.
C5_Witness ==
    /\ last.op = "Put"
    /\ last.err = ErrMultipleIDFields
    /\ Len(last.v.type.fields) = 3
    /\ MatchSet(last.v.type) = {1, 3}
    /\ last.v.type.fields[1].name = S_ID
    /\ last.v.type.fields[3].tag = S_ID

(***************************************************************************)
(* C6.  The storage key comes from the resolved field: after a Put that    *)
(* returned nil the value's encoding is the one file of the store, at      *)
(* <dir>/<type name>/<%v of the value of the matching field>, wherever     *)
(* that field is declared.                                                 *)
(***************************************************************************)
C6_KeyFromResolvedField ==
    PutDone(last) =>
        LET p == <<dbs[last.db].dir, last.v.type.name, FormatV(IdOf(last.v))>>
        IN  /\ DOMAIN fs.files = {p}
            /\ fs.files[p] = Marshal(last.v).data

\* main.go's shape: the tagged field Num is the middle one of three, and
\* the value is stored under store/Widget/123.
C6_Witness ==
    /\ PutDone(last)
    /\ Len(last.v.type.fields) = 3
    /\ MatchSet(last.v.type) = {2}
    /\ last.v.type.fields[2].name = S_Num
    /\ last.v.type.fields[3].name = S_Float
    /\ <<S_store, S_Widget, <<"1", "2", "3">>>> \in DOMAIN fs.files

(***************************************************************************)
(* C7.  Put frame: a Put that returns nil for a record of type T with      *)
(* identifier k leaves the bytes stored for every other pair (T', k') as   *)
(* they were.                                                              *)
(***************************************************************************)
C7_PutFrame ==
    [][ PutDone(last')
        => \A t2 \in StructTypes, k2 \in IDs :
               (t2 # last'.v.type \/ FormatV(k2) # FormatV(IdOf(last'.v)))
               => StoredEntity(fs', dbs[last'.db].dir, t2, k2)
                      = StoredEntity(fs, dbs[last'.db].dir, t2, k2) ]_vars

(***************************************************************************)
(* C8.  GetByID is read-only on the store: a call of GetByID, whatever it  *)
(* returns, leaves every directory and every file as it was, and a second  *)
(* call with the same arguments returns what the first returned.           *)
(***************************************************************************)
C8_GetByIDReadOnly ==
    [][ last'.op = "GetByID"
        => /\ fs' = fs
           /\ ( /\ last.op = "GetByID" /\ last'.db = last.db
                /\ last'.v = last.dst /\ last'.id = last.id )
              => (last'.err = last.err /\ last'.dst = last.dst) ]_vars

\* A second GetByID through the same pointer, after the first one filled the
\* value it points to, has returned nil with files in the store.
C8_Witness ==
    /\ last.op = "GetByID"
    /\ last.err = NoErr
    /\ IsRecordRef(last.v)
    /\ last.v # EmptyDst(last.v.elem)
    /\ last.dst = last.v
    /\ DOMAIN fs.files # {}

(***************************************************************************)
(* C9.  Put of a value that is not a struct returns ErrInvalidValueType as *)
(* a returned error, and writes nothing.                                   *)
(***************************************************************************)
C9_NonStructRejected ==
    [][ (last'.op = "Put" /\ last'.v.kind # "struct")
        => (last'.err = ErrInvalidValueType /\ fs' = fs) ]_vars

(***************************************************************************)
(* C10.  GetByID with a destination that is not a reference to a record    *)
(* returns ErrNonPointerDst and leaves the destination as it was, whether  *)
(* or not an entity is stored for the id.                                  *)
(***************************************************************************)
C10_NonReferenceRejected ==
    (last.op = "GetByID" /\ ~IsRecordRef(last.v))
    => (last.err = ErrNonPointerDst /\ last.dst = last.v)

(***************************************************************************)
(* C11.  A Put that returns ErrInvalidValueType, ErrNoIDField,             *)
(* ErrMultipleIDFields or the encoding failure leaves every directory and  *)
(* every file as it was, and a value whose type has no, or more than one,  *)
(* identifier field gets exactly the resolver's error.                     *)
(***************************************************************************)
EncodingFailed(e) == e.msg = "unable to marshal value"
RejectedBeforeStore(e) ==
    e \in {ErrInvalidValueType, ErrNoIDField, ErrMultipleIDFields} \/ EncodingFailed(e)

C11_RejectedPutLeavesStore ==
    [][ last'.op = "Put"
        => /\ RejectedBeforeStore(last'.err) => (fs' = fs /\ written' = written)
           /\ (last'.v.kind = "struct" /\ Cardinality(MatchSet(last'.v.type)) = 0)
                  => last'.err = ErrNoIDField
           /\ (last'.v.kind = "struct" /\ Cardinality(MatchSet(last'.v.type)) >= 2)
                  => last'.err = ErrMultipleIDFields ]_vars

\* A value with a NaN has been refused by the encoder in a store that holds
\* an entity of another type and no directory for the value's own type.
C11_Witness ==
    /\ last.op = "Put"
    /\ EncodingFailed(last.err)
    /\ DOMAIN fs.files # {}
    /\ <<dbs[last.db].dir, last.v.type.name>> \notin fs.dirs

(***************************************************************************)
(* C12.  The identifier is rendered alike on the write and the read path,  *)
(* whatever its static type: GetByID with a reference to a record of type  *)
(* T and an id that denotes the same integer or the same text as the       *)
(* identifier of a T that Put has stored (an integer of any width, or its  *)
(* decimal text) derives the file name Put derived and reads that file.    *)
(***************************************************************************)
\* A decimal text the way an integer is written: no sign for zero, no
\* leading zero.
IsCanonicalDecimal(s) ==
    /\ IsIntLiteral(s)
    /\ LET body == IF s[1] = "-" THEN Tail(s) ELSE s
       IN  /\ Len(body) > 1 => body[1] # "0"
           /\ s[1] = "-" => body # <<"0">>
\* What an identifier denotes: an integer, whether held in an integer of
\* some width or written as decimal text, or else a text.
LogicalID(v) ==
    CASE v.kind \in IntKinds -> <<"integer", v.n>>
      [] v.kind = "string" -> IF IsCanonicalDecimal(v.s) THEN <<"integer", ParseInt(v.s)>>
                              ELSE <<"text", v.s>>
      [] OTHER -> <<"other", v>>

C12_StableRendering ==
    (last.op = "GetByID" /\ IsRecordRef(last.v)) =>
        \A w \in written :
            (w.type = last.v.elem /\ LogicalID(w.id) = LogicalID(last.id))
            => /\ GetFileName(dbs[last.db].dir, last.v.elem.name, last.id)
                      = FileName(TypeDir(dbs[last.db].dir, w.type), w.id)
               /\ last.err # ErrNoSuchEntity
               /\ last.err.msg # "unable to get entity"

\* The record stored under the int64 123 has been read back with the id
\* given as the text "123", and a record stored under the text "1" with the
\* id given as a uint8.
C12_Witness ==
    /\ last.op = "GetByID"
    /\ last.err = NoErr
    /\ \/ /\ last.id = StringValue(<<"1", "2", "3">>)
          /\ last.dst.target = V_main
       \/ /\ last.id = IntOf("uint8", 1)
          /\ last.v.elem = T_UserB
          /\ last.dst.target.vals[2] = StringValue(S_1)

(***************************************************************************)
(* C13.  Instances are isolated by their directory: a Put through one      *)
(* instance leaves what every GetByID through an instance with a different *)
(* directory returns as it was, and no step changes the directory of an    *)
(* instance that exists.  As claimed, for any two different directories.   *)
(***************************************************************************)
\* What GetByID returns through an instance, for every destination and id.
Outcomes(db, f) ==
    [dst \in TwoDsts, id \in TwoIDs |-> GetByIDResult(db, f, dst, id)]
KeepsRoots == \A i \in 1..Len(dbs) : i <= Len(dbs') /\ dbs'[i] = dbs[i]

C13_IsolatedByRoot ==
    [][ /\ KeepsRoots
        /\ last'.op = "Put"
           => \A e \in 1..Len(dbs) :
                  dbs[e].dir # dbs[last'.db].dir
                  => Outcomes(dbs[e], fs') = Outcomes(dbs[e], fs) ]_vars

(***************************************************************************)
(* C13, amended: the same for two directories neither of which is the      *)
(* other or lies inside the other.                                         *)
(***************************************************************************)
IsPathPrefix(p, q) == Len(p) <= Len(q) /\ SubSeq(q, 1, Len(p)) = p
Apart(dir1, dir2) ==
    /\ ~IsPathPrefix(PathOf(dir1), PathOf(dir2))
    /\ ~IsPathPrefix(PathOf(dir2), PathOf(dir1))

C13_IsolatedWhenApart ==
    [][ /\ KeepsRoots
        /\ last'.op = "Put"
           => \A e \in 1..Len(dbs) :
                  Apart(dbs[e].dir, dbs[last'.db].dir)
                  => Outcomes(dbs[e], fs') = Outcomes(dbs[e], fs) ]_vars

\* A Put has returned nil through the second of two instances whose
\* directories are apart, the first of which holds an entity.
C13_Witness ==
    /\ Len(dbs) = 2
    /\ Apart(dbs[1].dir, dbs[2].dir)
    /\ PutDone(last) /\ last.db = 2
    /\ \E p \in DOMAIN fs.files : p[1] = dbs[1].dir
    /\ \E p \in DOMAIN fs.files : p[1] = dbs[2].dir

(***************************************************************************)
(* C14.  GetByID with a pointer destination returns ErrNoSuchEntity        *)
(* exactly when nothing exists at <dir>/<type name>/<id token>; when a     *)
(* file is there and its bytes do not decode into the destination it       *)
(* returns the decoding failure, and when the path exists but cannot be    *)
(* read as a file it returns the read failure; an absent path is reported  *)
(* as neither of the two.                                                  *)
(***************************************************************************)
ReadFailed(e) == e.msg = "unable to get entity"
DecodingFailed(e) == e.msg = "unable to unmarshal data"
\* Something exists at the path: a file or a directory.
Exists(f, path) == PathOf(path) \in DOMAIN f.files \/ PathOf(path) \in f.dirs
\* A file exists at the path and the path names it as a file.
IsFileAt(f, path) == PathOf(path) \in DOMAIN f.files /\ ~EndsWithSlash(path)

C14_NotFoundIffAbsent ==
    (last.op = "GetByID" /\ last.v.kind = "ptr") =>
        LET path == GetFileName(dbs[last.db].dir, last.v.elem.name, last.id)
        IN  /\ last.err = ErrNoSuchEntity <=> ~Exists(fs, path)
            /\ (IsFileAt(fs, path) /\ Unmarshal(fs.files[PathOf(path)], last.v).err # "")
                   => DecodingFailed(last.err)
            /\ (Exists(fs, path) /\ ~IsFileAt(fs, path)) => ReadFailed(last.err)
            /\ ~Exists(fs, path) => (~ReadFailed(last.err) /\ ~DecodingFailed(last.err))

(***************************************************************************)
(* C15.  No double counting: Put of a value whose only matching field is   *)
(* both named ID and tagged ID returns nil and stores the value under that *)
(* field's value; Put returns ErrMultipleIDFields exactly when two         *)
(* distinct fields match, by name or by tag, at any two positions.         *)
(***************************************************************************)
MatchesBoth(field) == field.name = S_ID /\ field.tag = S_ID
TwoDistinctMatch(t) ==
    \E i, j \in 1..Len(t.fields) : i # j /\ Matches(t.fields[i]) /\ Matches(t.fields[j])

C15_NoDoubleCounting ==
    last.op = "Put" =>
        LET t == last.v.type
        IN  /\ last.err = ErrMultipleIDFields <=> TwoDistinctMatch(t)
            /\ \A i \in 1..Len(t.fields) :
                   (MatchSet(t) = {i} /\ MatchesBoth(t.fields[i]))
                   => /\ last.err = NoErr
                      /\ StoredEntity(fs, dbs[last.db].dir, t, last.v.vals[i])
                             = <<Marshal(last.v).data>>

\* A value whose middle field of three is named ID and tagged ID, no other
\* field matching, has been stored.
C15_Witness ==
    /\ PutDone(last)
    /\ Len(last.v.type.fields) = 3
    /\ MatchSet(last.v.type) = {2}
    /\ MatchesBoth(last.v.type.fields[2])
    /\ DOMAIN fs.files # {}

(***************************************************************************)
(* C16.  Put is idempotent and does not depend on whether the directory of *)
(* the type exists: a Put of r right after a Put of r that returned nil    *)
(* returns nil and leaves every directory and file, and so every GetByID   *)
(* result, as the first left them; a Put of a storable record returns nil  *)
(* when nothing is at the type's directory and when the directory exists;  *)
(* and every Put returns, and leaves, what it would with the directory     *)
(* made beforehand.                                                        *)
(***************************************************************************)
\* A record Put can store: one identifier field, an encoding, and an
\* identifier whose token is not empty.
Storable(v) ==
    /\ HasOneID(v)
    /\ Marshal(v).err = ""
    /\ FormatV(IdOf(v)) # <<>>
\* Nothing is at the type's directory (with everything above it in place),
\* or it is a directory and no directory has the name of the record's file.
NamespaceAbsent(f, dir, v) ==
    /\ ~Exists(f, TypeDir(dir, v.type))
    /\ ~ThroughFile(f, PathOf(TypeDir(dir, v.type)))
NamespacePresent(f, dir, v) ==
    /\ PathOf(TypeDir(dir, v.type)) \in f.dirs
    /\ PathOf(FileName(TypeDir(dir, v.type), IdOf(v))) \notin f.dirs

C16_PutIdempotent ==
    [][ (last'.op = "Put" /\ last'.v.kind = "struct")
        => LET dir == dbs[last'.db].dir
               v == last'.v
               made == MkdirAll(fs, TypeDir(dir, v.type)).fs
               r == PutResult(dbs[last'.db], made, v)
           IN  /\ (PutDone(last) /\ last.v = v /\ last.db = last'.db)
                      => (last'.err = NoErr /\ fs' = fs)
               /\ (Storable(v) /\ NamespaceAbsent(fs, dir, v)) => last'.err = NoErr
               /\ (Storable(v) /\ NamespacePresent(fs, dir, v)) => last'.err = NoErr
               /\ r.err = last'.err
               /\ HasOneID(v) /\ Marshal(v).err = "" => r.fs = fs' ]_vars

\* After two Puts the store holds one record, stored by the second Put as
\* the first one of the same type and identifier had stored it.
C16_Witness ==
    /\ nputs = 2
    /\ PutDone(last)
    /\ last.v = V_main
    /\ written = {[type |-> T_newType, id |-> IntValue(123)]}
    /\ DOMAIN fs.files = {<<dbs[last.db].dir, S_newType, <<"1", "2", "3">>>>}

(***************************************************************************)
(* C17.  Racing writers: when two concurrent Puts of records r1 and r2 of  *)
(* the same type and identifier have both returned nil, the file holds the *)
(* complete encoding of r1 or of r2, and GetByID then returns nil and r1   *)
(* or r2.  As claimed.                                                     *)
(***************************************************************************)
\* Both Puts have returned nil and they wrote the same file.
BothStored ==
    /\ AllReturned
    /\ \A g \in Goroutines : calls[g].err = NoErr
    /\ calls[1].filename = calls[2].filename
    /\ calls[1].v.type = calls[2].v.type
StoredBytes == fs.files[PathOf(calls[1].filename)]
\* The GetByID that followed read the record the two Puts stored.
ReadTheRecord ==
    /\ last.op = "GetByID"
    /\ last.v = EmptyDst(calls[1].v.type)
    /\ FormatV(last.id) = FormatV(IdOf(calls[1].v))

Over(a, b) == b \o SubSeq(a, Len(b) + 1, Len(a))

====
